---- MODULE Spec2Model ----
(***************************************************************************)
(* Model of connlib's tunnel tables:                                       *)
(*   - PeerStore        (peer_store.rs): id -> peer and ip -> id maps      *)
(*   - GatewayOnClient  (client/gateway_on_client.rs): allowed_ips table   *)
(* Rust's Option<T> is modelled as a set with at most one element, a       *)
(* HashMap as a function whose DOMAIN is the set of keys present.          *)
(***************************************************************************)
EXTENDS Naturals, FiniteSets, Sequences, TLC

\* ---------------------------------------------------------------- bounds
NumIds == 2

\* ------------------------------------------------------------ PeerStore
VARIABLES id_by_ip, peer_by_id, last

\* ------------------------------------------------------ GatewayOnClient
VARIABLES gateway_tun, allowed_ips, granted, pc, rlast

storeVars == <<id_by_ip, peer_by_id, last>>
routeVars == <<gateway_tun, allowed_ips, granted, pc, rlast>>
vars == <<id_by_ip, peer_by_id, last, gateway_tun, allowed_ips, granted, pc, rlast>>

PeerIds == 1..NumIds

\* Non-address content of a peer: enough values to tell a candidate from
\* the stored peer.
Payloads == {"a", "b"}

\* The tunnel addresses peers are made with (those of the unit tests, and
\* one more IPv6 address so that either family can change).
Ipv4Addr == {"1.1.1.1", "127.0.0.1"}
Ipv6Addr == {"::1", "::2"}

\* IpAddr::V4(_) / IpAddr::V6(_): the two families never compare equal.
IpAddrV4(a) == <<4, a>>
IpAddrV6(a) == <<6, a>>
IpAddr == {IpAddrV4(a) : a \in Ipv4Addr} \cup {IpAddrV6(a) : a \in Ipv6Addr}

\* A stored peer value: its two tunnel addresses and everything else.
Peers == [ipv4 : Ipv4Addr, ipv6 : Ipv6Addr, data : Payloads]

tun_ipv4(p) == p.ipv4
tun_ipv6(p) == p.ipv6

\* The IpAddr keys a peer is indexed under (tun_ipv4().into(), tun_ipv6().into()).
PeerIps(p) == {IpAddrV4(tun_ipv4(p)), IpAddrV6(tun_ipv6(p))}

\* HashMap helpers
MapRemove(m, k) == [x \in DOMAIN m \ {k} |-> m[x]]
MapInsert(m, k, v) == [x \in DOMAIN m \cup {k} |-> IF x = k THEN v ELSE m[x]]
\* retain: the map cut down to the keys the closure answered true for
MapRetain(m, keys) == [x \in DOMAIN m \cap keys |-> m[x]]
MapGet(m, k) == IF k \in DOMAIN m THEN {m[k]} ELSE {}
EmptyMap == [x \in {} |-> 0]

\* What the last call was: its arguments (id, peer made by make_peer, the
\* predicate's sel and w), whether it logged "Peer's TUN IP has changed,
\* replacing", and its return value.
Call(op, id, peer, sel, w, log, ret) ==
    [op |-> op, id |-> id, peer |-> peer, sel |-> sel, w |-> w, log |-> log,
     ret |-> ret]

\* ---- lookups
PeerById(pb, id) == MapGet(pb, id)

PeerByIp(ibi, pb, ip) ==
    IF ip \notin DOMAIN ibi THEN {}
    ELSE IF ibi[ip] \notin DOMAIN pb THEN {}
    ELSE {pb[ibi[ip]]}

peer_by_id_of(id) == PeerById(peer_by_id, id)
peer_by_ip_of(ip) == PeerByIp(id_by_ip, peer_by_id, ip)

\* ---- upsert
\* The condition of the `if let`: a peer is stored and an address differs.
UpsertReplaces(pb, pid, peer) ==
    /\ pid \in DOMAIN pb
    /\ (tun_ipv4(pb[pid]) # tun_ipv4(peer) \/ tun_ipv6(pb[pid]) # tun_ipv6(peer))

\* Mutant: the old IPv6 entry is left in the index.
UpsertDropOld_KeepV6(ibi, pb, pid, peer) ==
    IF UpsertReplaces(pb, pid, peer)
    THEN MapRemove(ibi, IpAddrV4(tun_ipv4(pb[pid])))
    ELSE ibi

\* id_by_ip after the body of the `if let` (two removes by the old addresses).
UpsertDropOld(ibi, pb, pid, peer) ==
    IF UpsertReplaces(pb, pid, peer)
    THEN MapRemove(MapRemove(ibi, IpAddrV4(tun_ipv4(pb[pid]))),
                   IpAddrV6(tun_ipv6(pb[pid])))
    ELSE ibi

\* Mutant: insert(pid, peer) instead of entry(pid).or_insert(peer).
UpsertPeers_Overwrite(pb, pid, peer) == MapInsert(pb, pid, peer)

\* peer_by_id after the `if let` and entry(pid).or_insert(peer).
UpsertPeers(pb, pid, peer) ==
    LET pb1 == IF UpsertReplaces(pb, pid, peer) THEN MapRemove(pb, pid) ELSE pb
    IN  IF pid \in DOMAIN pb1 THEN pb1 ELSE MapInsert(pb1, pid, peer)

\* Mutant: only the IPv4 address is indexed.
UpsertIndex_V4Only(ibi, pb, pid, peer) ==
    MapInsert(UpsertDropOld(ibi, pb, pid, peer),
              IpAddrV4(tun_ipv4(UpsertPeers(pb, pid, peer)[pid])), pid)

\* Mutant: the trailing inserts are skipped when the stored peer is kept.
UpsertIndex_SkipKept(ibi, pb, pid, peer) ==
    IF pid \in DOMAIN pb /\ ~UpsertReplaces(pb, pid, peer)
    THEN ibi
    ELSE MapInsert(MapInsert(UpsertDropOld(ibi, pb, pid, peer),
                             IpAddrV4(tun_ipv4(peer)), pid),
                   IpAddrV6(tun_ipv6(peer)), pid)

\* id_by_ip after the two trailing inserts of the stored peer's addresses.
UpsertIndex(ibi, pb, pid, peer) ==
    LET stored == UpsertPeers(pb, pid, peer)[pid]
        ibi1   == UpsertDropOld(ibi, pb, pid, peer)
    IN  MapInsert(MapInsert(ibi1, IpAddrV4(tun_ipv4(stored)), pid),
                  IpAddrV6(tun_ipv6(stored)), pid)

upsert(pid, peer) ==
    /\ peer_by_id' = UpsertPeers(peer_by_id, pid, peer)
    /\ id_by_ip' = UpsertIndex(id_by_ip, peer_by_id, pid, peer)
    /\ last' = Call("upsert", pid, {peer}, {}, {},
                    UpsertReplaces(peer_by_id, pid, peer), {peer_by_id'[pid]})
    /\ UNCHANGED routeVars

\* ---- remove
\* Mutant: the retain is missing.
RemoveIndex_KeepAll(ibi, id) == ibi

\* id_by_ip.retain(|_, r_id| r_id != id)
RemoveIndex(ibi, id) == MapRetain(ibi, {ip \in DOMAIN ibi : ibi[ip] # id})

\* Mutant: the peer is read but not taken out of the map.
RemovePeers_Get(pb, id) == pb

\* peer_by_id.remove(id)
RemovePeers(pb, id) == MapRemove(pb, id)

remove(id) ==
    /\ id_by_ip' = RemoveIndex(id_by_ip, id)
    /\ peer_by_id' = RemovePeers(peer_by_id, id)
    /\ last' = Call("remove", id, {}, {}, {}, FALSE, MapGet(peer_by_id, id))
    /\ UNCHANGED routeVars

\* ---- extract_if
\* The predicate f(&id, &mut peer): `sel` is the set of ids it answers true
\* for, `w` what it writes into the peers it visits ({} = nothing).
Visit(p, w) == IF w = {} THEN p ELSE [p EXCEPT !.data = CHOOSE d \in w : TRUE]

ExtractRemoved(pb, sel, w) ==
    {<<id, Visit(pb[id], w)>> : id \in DOMAIN pb \cap sel}

ExtractPeers(pb, sel, w) ==
    [id \in DOMAIN pb \ sel |-> Visit(pb[id], w)]

\* Mutant: the index is not re-synchronised.
ExtractIndex_NoRetain(ibi, pbAfter) == ibi

\* id_by_ip.retain(|_, id| peer_by_id.contains_key(id))
ExtractIndex(ibi, pbAfter) ==
    MapRetain(ibi, {ip \in DOMAIN ibi : ibi[ip] \in DOMAIN pbAfter})

extract_if(sel, w) ==
    /\ peer_by_id' = ExtractPeers(peer_by_id, sel, w)
    /\ id_by_ip' = ExtractIndex(id_by_ip, peer_by_id')
    /\ last' = Call("extract_if", 0, {}, sel, w, FALSE,
                    ExtractRemoved(peer_by_id, sel, w))
    /\ UNCHANGED routeVars

\* ---- peer_by_id_mut / peer_by_ip_mut / iter_mut: the caller writes into a
\* stored peer; its reported addresses are left alone.
peer_by_id_mut(id, d) ==
    /\ id \in DOMAIN peer_by_id
    /\ peer_by_id' = [peer_by_id EXCEPT ![id].data = d]
    /\ UNCHANGED id_by_ip
    /\ last' = Call("peer_by_id_mut", id, {}, {}, {}, FALSE, {peer_by_id'[id]})
    /\ UNCHANGED routeVars

\* ---- clear
\* Mutant: only the address index is cleared.
clear_IndexOnly ==
    /\ id_by_ip' = EmptyMap
    /\ UNCHANGED peer_by_id
    /\ last' = Call("clear", 0, {}, {}, {}, FALSE, {})
    /\ UNCHANGED routeVars

clear ==
    /\ id_by_ip' = EmptyMap
    /\ peer_by_id' = EmptyMap
    /\ last' = Call("clear", 0, {}, {}, {}, FALSE, {})
    /\ UNCHANGED routeVars

\* ---- Default::default()
InitStore ==
    /\ id_by_ip = EmptyMap
    /\ peer_by_id = EmptyMap
    /\ last = Call("default", 0, {}, {}, {}, FALSE, {})


Next ==
    \/ \E pid \in PeerIds, peer \in Peers : upsert(pid, peer)
    \/ \E id \in PeerIds : remove(id)
    \/ \E sel \in SUBSET PeerIds, w \in {{}} \cup {{d} : d \in Payloads} :
          extract_if(sel, w)
    \/ \E id \in PeerIds, d \in Payloads : peer_by_id_mut(id, d)
    \/ clear

\* ------------------------------------------------------ GatewayOnClient
NumResources == 2
\* Cap on the number of (network, resource) grants held at once.
MaxGrants == 3

ResourceIds == 1..NumResources

\* An address is a family and its bits; a network is a family and the
\* leading bits it fixes (<<>> is the /0 network of the family).
Families == {4, 6}
HostBits == {<<0>>, <<1>>}
NetBits == {<<>>, <<0>>, <<1>>}
RouteAddr == {<<f, b>> : f \in Families, b \in HostBits}
IpNetwork == [fam : Families, net : NetBits]

IsPrefixOf(n, b) == Len(n) <= Len(b) /\ \A i \in 1..Len(n) : n[i] = b[i]

\* IpNetwork::contains
Contains(n, a) == n.fam = a[1] /\ IsPrefixOf(n.net, a[2])

\* IpConfig { v4, v6 }
IpConfig == {[v4 |-> <<4, b4>>, v6 |-> <<6, b6>>] : b4 \in HostBits, b6 \in HostBits}

\* IpConfig::is_ip
is_ip(cfg, ip) == ip = cfg.v4 \/ ip = cfg.v6

\* Mutant: entries whose resource set is empty are not matched.
LongestMatch_SkipEmptied(tbl, a) ==
    LET cands == {n \in DOMAIN tbl : Contains(n, a) /\ tbl[n] # {}}
    IN  {<<n, tbl[n]>> : n \in {m \in cands : \A o \in cands : Len(o.net) <= Len(m.net)}}

\* IpNetworkTable::longest_match: the most specific entry whose network
\* contains the address, as Option<(network, value)>.
LongestMatch(tbl, a) ==
    LET cands == {n \in DOMAIN tbl : Contains(n, a)}
    IN  {<<n, tbl[n]>> : n \in {m \in cands : \A o \in cands : Len(o.net) <= Len(m.net)}}

\* IpNetworkTable::exact_match
ExactMatch(tbl, n) == MapGet(tbl, n)

\* The (network, resource) pairs held by the table.
TableGrants(tbl) ==
    {g \in IpNetwork \X ResourceIds : g[1] \in DOMAIN tbl /\ g[2] \in tbl[g[1]]}

\* The last call on the route: its arguments (for remove_resource, net is
\* the set of networks its first loop wrote to), for ensure_allowed_src the
\* address carried by the NotAllowedResource error ({} = Ok(())), and for
\* tun_dns_server_endpoint the SocketAddr returned.
RCall(op, net, rid, src, err, ret) ==
    [op |-> op, net |-> net, rid |-> rid, src |-> src, err |-> err, ret |-> ret]

\* ---- allow_ip_for_resource
\* Mutant: longest_match_mut instead of exact_match_mut.
AllowTable_Longest(tbl, ip, id) ==
    LET cover == {n \in DOMAIN tbl : n.fam = ip.fam /\ IsPrefixOf(n.net, ip.net)}
    IN  IF cover # {}
        THEN LET best == CHOOSE m \in cover : \A o \in cover : Len(o.net) <= Len(m.net)
             IN  [tbl EXCEPT ![best] = @ \cup {id}]
        ELSE MapInsert(tbl, ip, {id})

\* Mutant: the id is also added to every entry whose network covers ip.
AllowTable_Covering(tbl, ip, id) ==
    LET t == IF ip \in DOMAIN tbl THEN tbl ELSE MapInsert(tbl, ip, {})
    IN  [n \in DOMAIN t |->
            IF n.fam = ip.fam /\ IsPrefixOf(n.net, ip.net) THEN t[n] \cup {id} ELSE t[n]]

AllowTable(tbl, ip, id) ==
    IF ExactMatch(tbl, ip) # {}
    THEN [tbl EXCEPT ![ip] = @ \cup {id}]
    ELSE MapInsert(tbl, ip, {id})

allow_ip_for_resource(ip, id) ==
    /\ pc = {}
    /\ Cardinality(TableGrants(AllowTable(allowed_ips, ip, id))) <= MaxGrants
    /\ allowed_ips' = AllowTable(allowed_ips, ip, id)
    /\ granted' = granted \cup {<<ip, id>>}
    /\ rlast' = RCall("allow_ip_for_resource", {ip}, {id}, {}, {}, {})
    /\ UNCHANGED <<gateway_tun, pc>>
    /\ UNCHANGED storeVars

\* ---- remove_resource
\* The entries the first loop's filter lets through.
Touched(tbl, id) == {n \in DOMAIN tbl : id \in tbl[n]}

\* Mutant: the loop stops after the first entry it wrote to.
RemoveId_FirstOnly(tbl, id) ==
    IF Touched(tbl, id) = {} THEN tbl
    ELSE LET first == CHOOSE n \in Touched(tbl, id) : TRUE
         IN  [tbl EXCEPT ![first] = @ \ {id}]

\* First loop: remove the id from all allowed ips.
RemoveId(tbl, id) ==
    [n \in DOMAIN tbl |-> IF n \in Touched(tbl, id) THEN tbl[n] \ {id} ELSE tbl[n]]

\* Mutant: the retain is missing.
Prune_KeepAll(tbl) == tbl

\* Mutant: the closure of the retain lost its negation.
Prune_Inverted(tbl) == MapRetain(tbl, {n \in DOMAIN tbl : tbl[n] = {}})

\* retain(|_, r| !r.is_empty())
Prune(tbl) == MapRetain(tbl, {n \in DOMAIN tbl : tbl[n] # {}})

remove_resource(id) ==
    /\ pc = {}
    /\ allowed_ips' = Prune(RemoveId(allowed_ips, id))
    /\ granted' = {g \in granted : g[2] # id}
    /\ rlast' = RCall("remove_resource", Touched(allowed_ips, id), {id}, {}, {}, {})
    /\ UNCHANGED <<gateway_tun, pc>>
    /\ UNCHANGED storeVars

\* remove_resource seen by a reader that runs between its two phases:
\* pc holds the id of the call that has done its first loop only.
remove_resource_scan(id) ==
    /\ pc = {}
    /\ allowed_ips' = RemoveId(allowed_ips, id)
    /\ granted' = {g \in granted : g[2] # id}
    /\ pc' = {id}
    /\ rlast' = RCall("remove_resource", Touched(allowed_ips, id), {id}, {}, {}, {})
    /\ UNCHANGED gateway_tun
    /\ UNCHANGED storeVars

remove_resource_prune ==
    /\ pc # {}
    /\ allowed_ips' = Prune(allowed_ips)
    /\ pc' = {}
    /\ rlast' = RCall("remove_resource", {}, pc, {}, {}, {})
    /\ UNCHANGED <<gateway_tun, granted>>
    /\ UNCHANGED storeVars

\* ---- no_allowed_resources
\* Mutant: the negation of is_empty().
no_allowed_resources_Inverted(tbl) == DOMAIN tbl # {}

no_allowed_resources(tbl) == DOMAIN tbl = {}

\* ---- tun_dns_server_endpoint
\* crate::gateway::TUN_DNS_PORT
TUN_DNS_PORT == 53535

\* Mutant: the arms of the match are swapped.
TunDnsServerEndpoint_Swapped(cfg, dst) ==
    <<IF dst[1] = 4 THEN cfg.v6 ELSE cfg.v4, TUN_DNS_PORT>>

\* SocketAddr::new(new_dst_ip, new_dst_port)
TunDnsServerEndpoint(cfg, dst) ==
    <<IF dst[1] = 4 THEN cfg.v4 ELSE cfg.v6, TUN_DNS_PORT>>

tun_dns_server_endpoint(dst) ==
    /\ rlast' = RCall("tun_dns_server_endpoint", {}, {}, {dst}, {},
                      {TunDnsServerEndpoint(gateway_tun, dst)})
    /\ UNCHANGED <<gateway_tun, allowed_ips, granted, pc>>
    /\ UNCHANGED storeVars

\* Mutant: the gateway's own addresses are not exempted.
EnsureAllowedSrc_NoTun(cfg, tbl, src) ==
    IF LongestMatch(tbl, src) = {} THEN {src} ELSE {}

\* ---- ensure_allowed_src: {} is Ok(()), {src} is Err(NotAllowedResource(src))
EnsureAllowedSrc(cfg, tbl, src) ==
    IF is_ip(cfg, src) THEN {}
    ELSE IF LongestMatch(tbl, src) = {} THEN {src}
    ELSE {}

ensure_allowed_src(src) ==
    /\ rlast' = RCall("ensure_allowed_src", {}, {}, {src},
                      EnsureAllowedSrc(gateway_tun, allowed_ips, src), {})
    /\ UNCHANGED <<gateway_tun, allowed_ips, granted, pc>>
    /\ UNCHANGED storeVars

\* ---- GatewayOnClient::new
InitRoute ==
    /\ gateway_tun \in IpConfig
    /\ allowed_ips = EmptyMap
    /\ granted = {}
    /\ pc = {}
    /\ rlast = RCall("new", {}, {}, {}, {}, {})

NextR ==
    \/ \E ip \in IpNetwork, id \in ResourceIds : allow_ip_for_resource(ip, id)
    \/ \E id \in ResourceIds : remove_resource(id)
    \/ \E src \in RouteAddr : ensure_allowed_src(src)
    \/ \E dst \in RouteAddr : tun_dns_server_endpoint(dst)

NextR2 ==
    \/ \E ip \in IpNetwork, id \in ResourceIds : allow_ip_for_resource(ip, id)
    \/ \E id \in ResourceIds : remove_resource_scan(id)
    \/ remove_resource_prune
    \/ \E src \in RouteAddr : ensure_allowed_src(src)

\* ------------------------------------------------------- specifications
\* A PeerStore on its own (the route is a fresh one and is not called).
Init == InitStore /\ InitRoute /\ gateway_tun = [v4 |-> <<4, <<0>>>>, v6 |-> <<6, <<0>>>>]
Spec == Init /\ [][Next]_vars

\* A GatewayOnClient on its own, every call atomic.
InitR == InitRoute /\ InitStore
SpecRoute == InitR /\ [][NextR]_vars

\* A GatewayOnClient whose remove_resource is read between its two phases.
SpecRouteTwoPhase == InitR /\ [][NextR2]_vars

\* ============================================================ PeerStore
\* The peer the factory made for the last upsert.
Cand(l) == CHOOSE c \in l.peer : TRUE

SameIps(p, q) == tun_ipv4(p) = tun_ipv4(q) /\ tun_ipv6(p) = tun_ipv6(q)

\* Some other stored peer reports an address that peer p reports too.
SharesIp(id, p) ==
    \E j \in DOMAIN peer_by_id \ {id} : PeerIps(peer_by_id[j]) \cap PeerIps(p) # {}

\* C1: every entry (addr, id) of the address index refers to an id that has
\* a stored peer, and that peer's IPv4 or IPv6 tunnel address is addr.
C1_IndexPointsAtHolder ==
    \A ip \in DOMAIN id_by_ip :
        /\ id_by_ip[ip] \in DOMAIN peer_by_id
        /\ ip \in PeerIps(peer_by_id[id_by_ip[ip]])

\* A removal took a peer out and left index entries behind.
C1_Witness ==
    /\ last.op \in {"remove", "extract_if"}
    /\ last.ret # {}
    /\ DOMAIN id_by_ip # {}

\* C5 as stated: after remove(id) of a stored peer, the id and both of the
\* removed peer's addresses resolve to nothing.
C5_Original ==
    (last.op = "remove" /\ last.ret # {}) =>
        /\ peer_by_id_of(last.id) = {}
        /\ \A p \in last.ret : \A ip \in PeerIps(p) : peer_by_ip_of(ip) = {}

\* C5 amended: after remove(id) of a stored peer, the peer is returned, the
\* id resolves to nothing, no index entry points at id, and each address of
\* the removed peer resolves to nothing unless the index mapped it to another
\* id, in which case it still resolves to that other peer.
C5_RemoveStep ==
    [][(last'.op = "remove" /\ last'.id \in DOMAIN peer_by_id) =>
        LET id  == last'.id
            old == peer_by_id[id]
        IN  /\ last'.ret = {old}
            /\ PeerById(peer_by_id', id) = {}
            /\ \A ip \in DOMAIN id_by_ip' : id_by_ip'[ip] # id
            /\ \A ip \in PeerIps(old) :
                  IF ip \in DOMAIN id_by_ip /\ id_by_ip[ip] # id
                  THEN PeerByIp(id_by_ip', peer_by_id', ip) =
                       PeerByIp(id_by_ip, peer_by_id, ip)
                  ELSE PeerByIp(id_by_ip', peer_by_id', ip) = {}]_vars

\* A peer was removed and one of its addresses still resolves (to another peer).
C5_Witness ==
    /\ last.op = "remove"
    /\ \E p \in last.ret : \E ip \in PeerIps(p) : peer_by_ip_of(ip) # {}

\* C6: upsert(id, f) on a stored id with a candidate whose IPv4 or IPv6
\* address differs: afterwards id resolves to the candidate, both candidate
\* addresses resolve to the candidate, and every old address the candidate
\* does not hold resolves to nothing.
C6_ReplaceStep ==
    [][(/\ last'.op = "upsert"
        /\ last'.id \in DOMAIN peer_by_id
        /\ ~SameIps(peer_by_id[last'.id], Cand(last'))) =>
        LET id  == last'.id
            old == peer_by_id[id]
            c   == Cand(last')
        IN  /\ PeerById(peer_by_id', id) = {c}
            /\ \A ip \in PeerIps(c) : PeerByIp(id_by_ip', peer_by_id', ip) = {c}
            /\ \A ip \in PeerIps(old) \ PeerIps(c) :
                  PeerByIp(id_by_ip', peer_by_id', ip) = {}]_vars

\* A replacement happened while another peer was stored.
C6_Witness ==
    /\ last.op = "upsert"
    /\ last.log
    /\ last.ret = last.peer
    /\ Cardinality(DOMAIN peer_by_id) > 1

\* C7: upsert(id, f) on a stored id with a candidate reporting the same two
\* addresses: the stored peer stays the previous value and is what is returned.
C7_KeepStep ==
    [][(/\ last'.op = "upsert"
        /\ last'.id \in DOMAIN peer_by_id
        /\ SameIps(peer_by_id[last'.id], Cand(last'))) =>
        /\ PeerById(peer_by_id', last'.id) = {peer_by_id[last'.id]}
        /\ last'.ret = {peer_by_id[last'.id]}]_vars

\* The stored peer was kept and differs from the (discarded) candidate.
C7_Witness ==
    /\ last.op = "upsert"
    /\ ~last.log
    /\ last.ret # last.peer
    /\ peer_by_id_of(last.id) = last.ret

\* C8 as stated: in that same-address case the address index is unchanged.
C8_Original ==
    [][(/\ last'.op = "upsert"
        /\ last'.id \in DOMAIN peer_by_id
        /\ SameIps(peer_by_id[last'.id], Cand(last'))) =>
        id_by_ip' = id_by_ip]_vars

\* C8 amended: in the same-address case the index after the call is the
\* index before it except that the stored peer's two addresses map to id.
C8_KeepIndexStep ==
    [][(/\ last'.op = "upsert"
        /\ last'.id \in DOMAIN peer_by_id
        /\ SameIps(peer_by_id[last'.id], Cand(last'))) =>
        LET id   == last'.id
            mine == PeerIps(peer_by_id[id])
        IN  /\ DOMAIN id_by_ip' = DOMAIN id_by_ip \cup mine
            /\ \A ip \in mine : id_by_ip'[ip] = id
            /\ \A ip \in DOMAIN id_by_ip \ mine : id_by_ip'[ip] = id_by_ip[ip]]_vars

\* The stored peer was kept while another stored peer reports one of its
\* addresses.
C8_Witness ==
    /\ last.op = "upsert"
    /\ ~last.log
    /\ last.ret # last.peer
    /\ \E p \in last.ret : SharesIp(last.id, p)

\* C9: right after upsert(id, f) the id resolves to a peer and both of that
\* peer's addresses resolve to it under id; and an address comes to map to
\* an id only by an upsert of that id whose stored peer reports the address.
C9_UpsertStep ==
    [][/\ last'.op = "upsert" =>
            /\ last'.id \in DOMAIN peer_by_id'
            /\ last'.ret = {peer_by_id'[last'.id]}
            /\ \A ip \in PeerIps(peer_by_id'[last'.id]) :
                  /\ ip \in DOMAIN id_by_ip'
                  /\ id_by_ip'[ip] = last'.id
                  /\ PeerByIp(id_by_ip', peer_by_id', ip) = last'.ret
       /\ \A ip \in DOMAIN id_by_ip' :
            (ip \notin DOMAIN id_by_ip \/ id_by_ip[ip] # id_by_ip'[ip]) =>
                /\ last'.op = "upsert"
                /\ id_by_ip'[ip] = last'.id
                /\ ip \in PeerIps(peer_by_id'[last'.id])]_vars

\* A new peer was stored under an address another stored peer reports.
C9_Witness ==
    /\ last.op = "upsert"
    /\ ~last.log
    /\ last.ret = last.peer
    /\ SharesIp(last.id, Cand(last))
    /\ \A ip \in PeerIps(Cand(last)) : peer_by_ip_of(ip) = last.ret

\* C10: extract_if removes and returns exactly the stored pairs its
\* predicate selects; afterwards no index entry points to a removed id, every
\* other peer is still found by id, and every address that resolved to such
\* a peer resolves to it still.
C10_ExtractStep ==
    [][last'.op = "extract_if" =>
        LET sel  == last'.sel
            w    == last'.w
            gone == DOMAIN peer_by_id \cap sel
            kept == DOMAIN peer_by_id \ sel
        IN  /\ last'.ret = {<<id, Visit(peer_by_id[id], w)>> : id \in gone}
            /\ DOMAIN peer_by_id' = kept
            /\ \A ip \in DOMAIN id_by_ip' : id_by_ip'[ip] \notin gone
            /\ \A id \in kept :
                  PeerById(peer_by_id', id) = {Visit(peer_by_id[id], w)}
            /\ \A ip \in DOMAIN id_by_ip :
                  id_by_ip[ip] \in kept =>
                      /\ ip \in DOMAIN id_by_ip'
                      /\ id_by_ip'[ip] = id_by_ip[ip]
                      /\ PeerByIp(id_by_ip', peer_by_id', ip) =
                            {Visit(peer_by_id[id_by_ip[ip]], w)}]_vars

\* A partial removal: something was returned and an address still resolves.
C10_Witness ==
    /\ last.op = "extract_if"
    /\ last.ret # {}
    /\ \E ip \in IpAddr : peer_by_ip_of(ip) # {}

\* ====================================================== GatewayOnClient
\* permits(addr): the longest-prefix match finds an entry.
Permits(tbl, a) == LongestMatch(tbl, a) # {}

\* Some entry covers the address and every entry covering it has lost all
\* its resources.
OnlyEmptied(tbl, a) ==
    /\ \E n \in DOMAIN tbl : Contains(n, a)
    /\ \A n \in DOMAIN tbl : Contains(n, a) => tbl[n] = {}

\* C2: permits(addr) holds exactly when some network containing addr was
\* allowed for a resource that has not been revoked since.
C2_PermitsIffGranted ==
    \A a \in RouteAddr :
        Permits(allowed_ips, a) <=> \E g \in granted : Contains(g[1], a)

\* A revoke took a grant away, some address is denied and another admitted.
C2_Witness ==
    /\ rlast.op = "remove_resource"
    /\ granted # {}
    /\ \E a \in RouteAddr : ~Permits(allowed_ips, a)
    /\ \E a \in RouteAddr : Permits(allowed_ips, a)

\* C3: ensure_allowed_src accepts the route's own IPv4 or IPv6 tunnel
\* address; any other source is accepted exactly when some entry covers it
\* and otherwise rejected with NotAllowed carrying that source; the route is
\* left as it was.
C3_EnsureStep ==
    [][rlast'.op = "ensure_allowed_src" =>
        LET src == CHOOSE a \in rlast'.src : TRUE
        IN  /\ UNCHANGED <<gateway_tun, allowed_ips>>
            /\ rlast'.err =
                  IF src = gateway_tun.v4 \/ src = gateway_tun.v6 THEN {}
                  ELSE IF \E n \in DOMAIN allowed_ips : Contains(n, src) THEN {}
                  ELSE {src}]_vars

\* A source was rejected, carrying itself, while the allow list has entries.
C3_Witness ==
    /\ rlast.op = "ensure_allowed_src"
    /\ rlast.err # {}
    /\ rlast.err = rlast.src
    /\ ~no_allowed_resources(allowed_ips)

NetOf(l) == CHOOSE n \in l.net : TRUE
RidOf(l) == CHOOSE r \in l.rid : TRUE
AddrOf(l) == CHOOSE a \in l.src : TRUE

\* Network n covers network m: same family, and n's bits lead m's.
Covers(n, m) == n.fam = m.fam /\ IsPrefixOf(n.net, m.net)

\* C11: at the end of every allow and revoke call no entry of the table has
\* an empty resource set.
C11_NoEmptyEntry ==
    \A n \in DOMAIN allowed_ips : allowed_ips[n] # {}

\* A revoke wrote to an entry and entries are left.
C11_Witness ==
    /\ rlast.op = "remove_resource"
    /\ rlast.net # {}
    /\ ~no_allowed_resources(allowed_ips)

\* C12: revoke(r) takes r out of every entry in one call; an entry left
\* empty is deleted; an entry holding another resource keeps its network and
\* exactly its other resources; afterwards r is in no entry.
C12_RevokeStep ==
    [][rlast'.op = "remove_resource" =>
        LET r == RidOf(rlast')
        IN  /\ DOMAIN allowed_ips' =
                  {n \in DOMAIN allowed_ips : allowed_ips[n] \ {r} # {}}
            /\ \A n \in DOMAIN allowed_ips' :
                  allowed_ips'[n] = allowed_ips[n] \ {r}
            /\ \A n \in DOMAIN allowed_ips' : r \notin allowed_ips'[n]
            /\ rlast'.net = {n \in DOMAIN allowed_ips : r \in allowed_ips[n]}]_vars

\* One revoke deleted an entry and left another, which it wrote to, with its
\* other resource.
C12_Witness ==
    /\ rlast.op = "remove_resource"
    /\ \E n \in rlast.net : n \notin DOMAIN allowed_ips
    /\ \E n \in rlast.net : n \in DOMAIN allowed_ips

\* C13: allow(p, r) is keyed on the exact network: an entry for exactly p
\* gains r, otherwise a new entry p with {r} is made, also when a shorter or
\* longer overlapping network has an entry; overlapping entries stay apart.
C13_AllowStep ==
    [][rlast'.op = "allow_ip_for_resource" =>
        LET p == NetOf(rlast')
            r == RidOf(rlast')
        IN  /\ DOMAIN allowed_ips' = DOMAIN allowed_ips \cup {p}
            /\ allowed_ips'[p] =
                  IF p \in DOMAIN allowed_ips THEN allowed_ips[p] \cup {r} ELSE {r}
            /\ \A n \in DOMAIN allowed_ips :
                  (n # p /\ (Covers(n, p) \/ Covers(p, n))) =>
                      allowed_ips'[n] = allowed_ips[n]]_vars

\* A new entry {r} was made for a network inside one that has its own entry
\* with another resource.
C13_Witness ==
    /\ rlast.op = "allow_ip_for_resource"
    /\ allowed_ips[NetOf(rlast)] = rlast.rid
    /\ \E n \in DOMAIN allowed_ips :
          /\ n # NetOf(rlast)
          /\ Covers(n, NetOf(rlast))
          /\ allowed_ips[n] # rlast.rid

\* C14: allow(p1, r) changes no entry other than p1, and for every address
\* outside p1 permits answers after the call what it answered before.
C14_AllowFrameStep ==
    [][rlast'.op = "allow_ip_for_resource" =>
        LET p == NetOf(rlast')
        IN  /\ DOMAIN allowed_ips' \ {p} = DOMAIN allowed_ips \ {p}
            /\ \A n \in DOMAIN allowed_ips \ {p} : allowed_ips'[n] = allowed_ips[n]
            /\ \A a \in RouteAddr :
                  ~Contains(p, a) =>
                      (Permits(allowed_ips', a) <=> Permits(allowed_ips, a))]_vars

\* After an allow, an address outside its network is admitted by another
\* entry and one more address outside it is denied.
C14_Witness ==
    /\ rlast.op = "allow_ip_for_resource"
    /\ \E a \in RouteAddr :
          ~Contains(NetOf(rlast), a) /\ Permits(allowed_ips, a)
    /\ \E a \in RouteAddr :
          ~Contains(NetOf(rlast), a) /\ ~Permits(allowed_ips, a)

\* C15: no_allowed_resources() is true exactly when every grant made has
\* been revoked since, and it is true of a new route.
C15_EmptyIffAllRevoked ==
    /\ no_allowed_resources(allowed_ips) <=> granted = {}
    /\ no_allowed_resources(allowed_ips) <=> DOMAIN allowed_ips = {}
    /\ rlast.op = "new" => no_allowed_resources(allowed_ips)

\* A revoke that wrote to entries left the route empty.
C15_Witness ==
    /\ rlast.op = "remove_resource"
    /\ rlast.net # {}
    /\ no_allowed_resources(allowed_ips)

\* C16: tun_dns_server_endpoint(dst) returns the route's own IPv4 address
\* for an IPv4 dst and its own IPv6 address for an IPv6 dst, with the one
\* tunnel DNS port, whatever the allow list holds, and changes nothing.
C16_DnsEndpointStep ==
    [][rlast'.op = "tun_dns_server_endpoint" =>
        LET dst == AddrOf(rlast')
        IN  /\ rlast'.ret =
                  {<<IF dst[1] = 4 THEN gateway_tun.v4 ELSE gateway_tun.v6,
                     TUN_DNS_PORT>>}
            /\ UNCHANGED <<gateway_tun, allowed_ips, granted, pc>>]_vars

\* An IPv6 destination other than the route's own address was rewritten to
\* it while the allow list has entries.
C16_Witness ==
    /\ rlast.op = "tun_dns_server_endpoint"
    /\ AddrOf(rlast)[1] = 6
    /\ AddrOf(rlast) # gateway_tun.v6
    /\ rlast.ret = {<<gateway_tun.v6, TUN_DNS_PORT>>}
    /\ ~no_allowed_resources(allowed_ips)

\* ============================================= PeerStore, continued
\* No two stored peers report the same tunnel address.
NoSharedIp ==
    \A i \in DOMAIN peer_by_id : \A j \in DOMAIN peer_by_id \ {i} :
        PeerIps(peer_by_id[i]) \cap PeerIps(peer_by_id[j]) = {}

\* C17: in every state where no two stored peers share a tunnel address,
\* the lookup by each stored peer's IPv4 and IPv6 address returns that peer.
C17_Original ==
    NoSharedIp =>
        \A id \in DOMAIN peer_by_id : \A ip \in PeerIps(peer_by_id[id]) :
            peer_by_ip_of(ip) = {peer_by_id[id]}

\* C18: upsert(id, f) leaves the peer of every other id as it was, and an
\* index entry pointing at another id is deleted or redirected only if its
\* address is one of the peer stored for id after the call; a deleted entry
\* pointed at id.
C18_Original ==
    [][last'.op = "upsert" =>
        LET id == last'.id
        IN  /\ DOMAIN peer_by_id' \ {id} = DOMAIN peer_by_id \ {id}
            /\ \A j \in DOMAIN peer_by_id \ {id} : peer_by_id'[j] = peer_by_id[j]
            /\ \A ip \in DOMAIN id_by_ip :
                  (/\ id_by_ip[ip] # id
                   /\ (ip \notin DOMAIN id_by_ip' \/ id_by_ip'[ip] # id_by_ip[ip])) =>
                      ip \in PeerIps(peer_by_id'[id])
            /\ \A ip \in DOMAIN id_by_ip \ DOMAIN id_by_ip' : id_by_ip[ip] = id]_vars

\* C19: remove(id) of an id with no stored peer returns nothing and leaves
\* both maps as they were; an id with no stored peer and an address no
\* stored peer reports resolve to nothing; after clear() every id and every
\* address resolves to nothing.
C19_AbsenceStep ==
    [][/\ (last'.op = "remove" /\ last'.id \notin DOMAIN peer_by_id) =>
            /\ last'.ret = {}
            /\ peer_by_id' = peer_by_id
            /\ id_by_ip' = id_by_ip
       /\ \A id \in PeerIds \ DOMAIN peer_by_id' :
            PeerById(peer_by_id', id) = {}
       /\ \A ip \in IpAddr :
            (\A id \in DOMAIN peer_by_id' : ip \notin PeerIps(peer_by_id'[id])) =>
                PeerByIp(id_by_ip', peer_by_id', ip) = {}
       /\ last'.op = "clear" =>
            /\ \A id \in PeerIds : PeerById(peer_by_id', id) = {}
            /\ \A ip \in IpAddr : PeerByIp(id_by_ip', peer_by_id', ip) = {}]_vars

\* An id with no stored peer was removed from a store that holds another.
C19_Witness ==
    /\ last.op = "remove"
    /\ last.ret = {}
    /\ peer_by_id_of(last.id) = {}
    /\ DOMAIN peer_by_id # {}
    /\ DOMAIN id_by_ip # {}

====
